---- MODULE Spec2Model ----
(***************************************************************************)
(* Model of the streamyfin playback session controller                     *)
(* (src/providers/PlaybackProvider.tsx), of the part of the full screen    *)
(* player that drives it (src/unnamed/part_001) and of the stream URL      *)
(* resolution (src/utils/jellyfin/media/getStreamUrl.ts).                  *)
(*                                                                         *)
(* React is modelled as follows.  A handler runs to completion, then the   *)
(* provider re-renders and the effects of that render run, all in one      *)
(* step (Render).  A useCallback closure sees the state of the last render *)
(* in which one of its dependencies changed; where the dependency list     *)
(* covers everything the closure reads, the closure reads the current      *)
(* state, and where it does not, the captured value is a variable of its   *)
(* own (msgIsPlaying).  A lodash debounce is a pending call that a later   *)
(* call on the same debounced function replaces and that fires at any      *)
(* later step: two calls are within the 500 ms window of each other when   *)
(* the second is made while the first is pending.                          *)
(***************************************************************************)
EXTENDS Integers, Sequences, FiniteSets, Bags, TLC

\* ------------------------------------------------------------------ bounds
MaxTime == 1
MaxSid == 2
MaxInflight == 1
MaxAlerts == 1
MaxStale == 1
MaxSources == 2
MaxSockets == 2
MaxPos == 2

\* --------------------------------------------------------------- constants
TicksPerSecond == 10000000
NoVolume == 0 - 1
DefaultVolume == 20
Volumes == {0, DefaultVolume, 50}

Items == {"A", "B"}
NoItem == "none"
NoSid == 0
NoSession == [item |-> NoItem, sid |-> NoSid]
Times == 0 .. MaxTime

VARIABLES
  currentlyPlaying,   \* useState currentlyPlaying: the current item's Id, or NoItem
  session,            \* useState session: the item it was negotiated for and its PlaySessionId
  isPlaying,          \* useState isPlaying
  progressTicks,      \* useState progressTicks
  pendingIsPlaying,   \* the debounced setIsPlaying: <<>> or <<value of the pending call>>
  pendingProgress,    \* the current debounced onProgress: <<>> or <<currentTime of the pending call>>
  stale,              \* bag of earlier debounced onProgress functions whose timer is pending
  inflight,           \* bag of setCurrentlyPlayingState calls awaiting the server, by item
  alerts,             \* bag of "Something went wrong" alerts on screen, by item
  ws,                 \* useState ws: 0 for null, else the socket
  msgIsPlaying,       \* isPlaying as captured by the installed ws.onmessage handler
  lastOp,             \* history: the handler that ran last, its argument, isPlaying before it
  sent,               \* history: the reports sent to the server by the last step
  stopReported,       \* history: a stop was reported for the current item since it became current
  urlPc,              \* getStreamUrl: "idle", "start", "awaiting" (the POST is in flight), "done"
  urlIn,              \* getStreamUrl: the arguments of the call
  urlResp,            \* getStreamUrl: response.data.MediaSources
  urlOut,             \* getStreamUrl: how the call ended
  hasDeviceId,        \* the deviceId query has delivered a device identifier
  hasToken,           \* api.accessToken is set
  mounted,            \* the provider is mounted
  sockets,            \* the WebSockets created so far: readyState and keepAliveInterval
  live,               \* the socket whose effect cleanup is registered, 0 for none
  isConnected,        \* useState isConnected
  pinged,             \* history: the socket the last socket step sent a KeepAlive on, 0 for none
  volume,             \* useState volume
  previousVolume,     \* useRef previousVolume
  displayed,          \* history: the last step showed a DisplayMessage alert
  isSeeking,          \* the player's shared value isSeeking
  progress,           \* the player's shared value progress: the scrub position in ticks
  displayedTime,      \* the player's useState currentTime: the displayed time in seconds
  seeks               \* history: the videoRef.seek calls of the last step, in seconds

ctlVars == <<currentlyPlaying, session, isPlaying, progressTicks,
             pendingIsPlaying, pendingProgress, stale, inflight, alerts,
             ws, msgIsPlaying, lastOp, sent, stopReported>>
urlVars == <<urlPc, urlIn, urlResp, urlOut>>
remoteVars == <<hasDeviceId, hasToken, mounted, sockets, live, isConnected, pinged,
                volume, previousVolume, displayed>>
playerVars == <<isSeeking, progress, displayedTime, seeks>>
vars == <<ctlVars, urlVars, remoteVars, playerVars>>

\* ------------------------------------------------- reports to the server
ProgressReport(item, sid, ticks, paused) ==
  [kind |-> "progress", item |-> item, sid |-> sid, ticks |-> ticks, paused |-> paused]

StoppedReport(item, sid, ticks) ==
  [kind |-> "stopped", item |-> item, sid |-> sid, ticks |-> ticks, paused |-> FALSE]

\* reportPlaybackProgress: the progress report it posts
reportPlaybackProgress(item, sid, ticks, paused) ==
  <<ProgressReport(item, sid, ticks, paused)>>

\* reportPlaybackStopped: nothing without an active session, else the stop report
reportPlaybackStopped(item, sid, ticks) ==
  IF item = NoItem THEN <<>> ELSE <<StoppedReport(item, sid, ticks)>>

\* the history record of a handler: its name, its argument, the current item
\* before it, the PlaySessionId and the position it worked with, isPlaying
\* before it, and whether the handler before it was the same one
OpRec(name, item, prev, sid, time, was) ==
  [op |-> name, item |-> item, prev |-> prev, sid |-> sid, time |-> time,
   was |-> was, again |-> name # "other" /\ lastOp.op = name]

\* the history record of the handlers no property refers to
Other == OpRec("other", NoItem, NoItem, NoSid, 0, FALSE)

\* ---------------------------------------------------------------- rendering
\* The state a handler leaves behind, before the render: cp, se, pt, ip are
\* the useState values, newItem says that setCurrentlyPlaying was given a
\* state object, out the reports sent, pi the debounced setIsPlaying call, pp
\* and st the debounced onProgress calls.  (isFullscreen, isBuffering and
\* subtitles are read by no operation modelled here and are left out; the
\* volume is written by setVolume alone and is not part of this record.)
Cur ==
  [cp |-> currentlyPlaying, se |-> session, pt |-> progressTicks,
   ip |-> isPlaying, newItem |-> FALSE, out |-> <<>>,
   pi |-> pendingIsPlaying, pp |-> pendingProgress, st |-> stale]

setSession(n, data) == [n EXCEPT !.se = data]

\* a setter that leaves an active item in place
setCurrentlyPlaying_KeepsActive(n, state) ==
  IF n.cp # NoItem /\ state # NoItem THEN n
  ELSE [n EXCEPT !.cp = state, !.newItem = state # NoItem]

setCurrentlyPlaying(n, state) == [n EXCEPT !.cp = state, !.newItem = state # NoItem]

setProgressTicks(n, ticks) == [n EXCEPT !.pt = ticks]

_setIsPlaying(n, value) == [n EXCEPT !.ip = value]

\* setIsPlaying: debounce(_setIsPlaying, 500), one debounced function for ever
setIsPlaying(n, value) == [n EXCEPT !.pi = <<value>>]

Report(n, reports) == [n EXCEPT !.out = n.out \o reports]

\* playVideo, as a closure over the render it belongs to
playVideo(n) ==
  Report(_setIsPlaying(n, TRUE), reportPlaybackProgress(n.cp, n.se.sid, n.pt, FALSE))

\* pauseVideo, as a closure over the render it belongs to
pauseVideo(n) ==
  Report(_setIsPlaying(n, FALSE), reportPlaybackProgress(n.cp, n.se.sid, n.pt, TRUE))

\* the player's effect on [currentlyPlaying]: playVideo() for a new current item
playerEffect(n) ==
  IF n.newItem /\ n.cp # NoItem THEN playVideo(n) ELSE n

\* the dependencies of playVideo, pauseVideo and stopPlayback, which are those
\* of the effect that installs ws.onmessage
HandlerDepsChanged(n) ==
  \/ n.cp # currentlyPlaying
  \/ n.se.sid # session.sid
  \/ n.pt # progressTicks

\* the dependencies of _onProgress, on which onProgress is debounced anew
ProgressDepsChanged(n) ==
  \/ n.se.sid # session.sid
  \/ n.cp # currentlyPlaying
  \/ n.ip # isPlaying

\* the early return of _onProgress
Ignored(sid, item, currentTime) ==
  sid = NoSid \/ item = NoItem \/ currentTime = 0

StoppedItems(out) == {out[k].item : k \in {j \in DOMAIN out : out[j].kind = "stopped"}}

\* The render after a handler, and the effects of that render.  When
\* _onProgress changes, onProgress becomes a new debounced function and the
\* pending call of the old one stays pending; it is kept in stale unless
\* _onProgress will ignore it, in which case its timer fires with no effect.
\* A step that would leave more than MaxStale such calls pending is not taken.
Render(n) ==
  LET m == playerEffect(n)
      redebounced == ProgressDepsChanged(n) \/ ProgressDepsChanged(m)
      old == [sid |-> session.sid, item |-> currentlyPlaying,
              playing |-> isPlaying, time |-> n.pp[1]]
  IN /\ currentlyPlaying' = m.cp
     /\ session' = m.se
     /\ progressTicks' = m.pt
     /\ isPlaying' = m.ip
     /\ pendingIsPlaying' = m.pi
     /\ sent' = m.out
     /\ msgIsPlaying' = IF ws # 0 /\ HandlerDepsChanged(n) THEN n.ip ELSE msgIsPlaying
     /\ pendingProgress' = IF redebounced THEN <<>> ELSE n.pp
     /\ stale' = IF redebounced /\ n.pp # <<>> /\ ~Ignored(old.sid, old.item, old.time)
                  THEN n.st (+) SetToBag({old})
                  ELSE n.st
     /\ BagCardinality(stale') <= MaxStale
     /\ stopReported' =
          /\ m.cp # NoItem
          /\ ~n.newItem
          /\ stopReported \/ m.cp \in StoppedItems(m.out)

\* ------------------------------------------------- setCurrentlyPlayingState
\* the PlaySessionIds in use; the server hands out one that is not
UsedSids == {session.sid} \cup {c.sid : c \in BagToSet(stale)}

FreshSids == (1 .. MaxSid) \ UsedSids

FreshSid == CHOOSE sid \in FreshSids : \A other \in FreshSids : sid <= other

\* an else branch that forgets setCurrentlyPlaying(null)
setCurrentlyPlayingStateNull_KeepsItem(n) ==
  setIsPlaying(n, FALSE)

\* the else branch: no state, or no user (setIsFullscreen(false) is left out)
setCurrentlyPlayingStateNull(n) ==
  setIsPlaying(setCurrentlyPlaying(n, NoItem), FALSE)

\* a try block that forgets setSession(res.data)
setCurrentlyPlayingStateDone_NoSession(n, state, data) ==
  setIsPlaying(setCurrentlyPlaying(n, state), TRUE)

\* the end of the try block, once both awaits have resolved with res.data
setCurrentlyPlayingStateDone(n, state, data) ==
  setIsPlaying(setCurrentlyPlaying(setSession(n, data), state), TRUE)

\* the onPress of "Try force play"
forcePlay(n, state) ==
  setIsPlaying(setCurrentlyPlaying(n, state), TRUE)

\* setCurrentlyPlayingState(state) with settings.openInVLC: the link is opened
SetCurrentlyPlayingStateVLC(state) ==
  /\ state \in Items
  /\ Render(Cur)
  /\ lastOp' = Other
  /\ UNCHANGED <<inflight, alerts, ws, urlVars, remoteVars, playerVars>>

\* setCurrentlyPlayingState(state) up to its first await
SetCurrentlyPlayingStateBegin(state) ==
  /\ state \in Items
  /\ BagCardinality(inflight) < MaxInflight
  /\ inflight' = inflight (+) SetToBag({state})
  /\ Render(Cur)
  /\ lastOp' = Other
  /\ UNCHANGED <<alerts, ws, urlVars, remoteVars, playerVars>>

\* setCurrentlyPlayingState(state) with a null state, or with no user
SetCurrentlyPlayingStateClear ==
  /\ Render(setCurrentlyPlayingStateNull(Cur))
  /\ lastOp' = Other
  /\ UNCHANGED <<inflight, alerts, ws, urlVars, remoteVars, playerVars>>

\* getPlaybackInfo and postCapabilities have resolved (the response carries a
\* PlaySessionId, or omits it): the session, the item and the play flag are set
NegotiationReturns(state, withSid) ==
  /\ state \in BagToSet(inflight)
  /\ withSid => FreshSids # {}
  /\ inflight' = inflight (-) SetToBag({state})
  /\ LET sid == IF withSid THEN FreshSid ELSE NoSid
     IN /\ Render(setCurrentlyPlayingStateDone(Cur, state, [item |-> state, sid |-> sid]))
        /\ lastOp' = OpRec("beginDone", state, currentlyPlaying, sid, 0, FALSE)
  /\ UNCHANGED <<alerts, ws, urlVars, remoteVars, playerVars>>

\* getPlaybackInfo or postCapabilities throws: the catch block shows the alert
NegotiationThrows(state) ==
  /\ state \in BagToSet(inflight)
  /\ BagCardinality(alerts) < MaxAlerts
  /\ inflight' = inflight (-) SetToBag({state})
  /\ alerts' = alerts (+) SetToBag({state})
  /\ Render(Cur)
  /\ lastOp' = OpRec("beginFailed", NoItem, NoItem, NoSid, 0, FALSE)
  /\ UNCHANGED <<ws, urlVars, remoteVars, playerVars>>

\* the alert's "Try force play" button
AlertForcePlay(state) ==
  /\ state \in BagToSet(alerts)
  /\ alerts' = alerts (-) SetToBag({state})
  /\ Render(forcePlay(Cur, state))
  /\ lastOp' = OpRec("forcePlay", state, currentlyPlaying, NoSid, 0, FALSE)
  /\ UNCHANGED <<inflight, ws, urlVars, remoteVars, playerVars>>

\* an "Ok" button with the onPress of "Try force play"
alertOk_Plays(n, state) == forcePlay(n, state)

\* the "Ok" button has no onPress: the alert is dismissed
alertOk(n, state) == n

\* the alert's "Ok" button
AlertOk(state) ==
  /\ state \in BagToSet(alerts)
  /\ alerts' = alerts (-) SetToBag({state})
  /\ Render(alertOk(Cur, state))
  /\ lastOp' = OpRec("alertOk", NoItem, NoItem, NoSid, 0, FALSE)
  /\ UNCHANGED <<inflight, ws, urlVars, remoteVars, playerVars>>

\* ---------------------------------------------- startDownloadedFilePlayback
startDownloadedFilePlayback(n, state) ==
  IF state = NoItem
    THEN setIsPlaying(setCurrentlyPlaying(n, NoItem), FALSE)
    ELSE setIsPlaying(setCurrentlyPlaying(n, state), TRUE)

StartDownloadedFilePlayback(state) ==
  /\ state \in Items \cup {NoItem}
  /\ Render(startDownloadedFilePlayback(Cur, state))
  /\ lastOp' = OpRec("startDownloaded", state, currentlyPlaying, NoSid, 0, FALSE)
  /\ UNCHANGED <<inflight, alerts, ws, urlVars, remoteVars, playerVars>>

\* ------------------------------------------------------------- stopPlayback
stopPlayback(n) ==
  LET id == n.cp
  IN Report(setCurrentlyPlayingStateNull(n), reportPlaybackStopped(id, n.se.sid, n.pt))

\* stopPlayback() called by the player (back, previous and next item, close)
StopPlayback ==
  /\ Render(stopPlayback(Cur))
  /\ lastOp' = OpRec("stop", NoItem, currentlyPlaying, NoSid, 0, FALSE)
  /\ UNCHANGED <<inflight, alerts, ws, urlVars, remoteVars, playerVars>>

\* ------------------------------------------------ play, pause, setIsPlaying
\* the player renders its video and its controls only with a current item
PlayerRendered == currentlyPlaying # NoItem

\* the player's play/pause button
HandlePlayPause ==
  /\ PlayerRendered
  /\ Render(IF isPlaying THEN pauseVideo(Cur) ELSE playVideo(Cur))
  /\ lastOp' = Other
  /\ UNCHANGED <<inflight, alerts, ws, urlVars, remoteVars, playerVars>>

\* the player's onError: setIsPlaying(false)
HandleVideoError ==
  /\ PlayerRendered
  /\ Render(setIsPlaying(Cur, FALSE))
  /\ lastOp' = Other
  /\ UNCHANGED <<inflight, alerts, ws, urlVars, remoteVars, playerVars>>

\* the debounced setIsPlaying fires: _setIsPlaying(value)
SetIsPlayingFires ==
  /\ pendingIsPlaying # <<>>
  /\ Render(_setIsPlaying([Cur EXCEPT !.pi = <<>>], pendingIsPlaying[1]))
  /\ lastOp' = Other
  /\ UNCHANGED <<inflight, alerts, ws, urlVars, remoteVars, playerVars>>

\* --------------------------------------------------------------- onProgress
\* an _onProgress without the currentTime === 0 test
_onProgress_ReportsZero(n, sid, item, playing, currentTime) ==
  IF sid = NoSid \/ item = NoItem
    THEN n
    ELSE LET ticks == currentTime * TicksPerSecond
         IN Report(setProgressTicks(n, ticks),
                   reportPlaybackProgress(item, sid, ticks, ~playing))

\* _onProgress, as the closure that captured sid, item and playing
_onProgress(n, sid, item, playing, currentTime) ==
  IF Ignored(sid, item, currentTime)
    THEN n
    ELSE LET ticks == currentTime * TicksPerSecond
         IN Report(setProgressTicks(n, ticks),
                   reportPlaybackProgress(item, sid, ticks, ~playing))

\* onProgress(data), called by the player for a progress event of the video:
\* the call replaces the pending one of the same debounce
OnProgress(currentTime) ==
  /\ PlayerRendered
  /\ currentTime \in Times
  /\ Render([Cur EXCEPT !.pp = <<currentTime>>])
  /\ lastOp' = Other
  /\ UNCHANGED <<inflight, alerts, ws, urlVars, remoteVars, playerVars>>

\* the current debounced onProgress fires
OnProgressFires ==
  /\ pendingProgress # <<>>
  /\ Render(_onProgress([Cur EXCEPT !.pp = <<>>], session.sid, currentlyPlaying,
                        isPlaying, pendingProgress[1]))
  /\ lastOp' = OpRec("_onProgress", currentlyPlaying, NoItem, session.sid,
                     pendingProgress[1], FALSE)
  /\ UNCHANGED <<inflight, alerts, ws, urlVars, remoteVars, playerVars>>

\* a debounced onProgress of an earlier render fires, with what it captured
StaleOnProgressFires(c) ==
  /\ c \in BagToSet(stale)
  /\ Render(_onProgress([Cur EXCEPT !.st = stale (-) SetToBag({c})], c.sid,
                        c.item, c.playing, c.time))
  /\ lastOp' = OpRec("_onProgress", c.item, NoItem, c.sid, c.time, FALSE)
  /\ UNCHANGED <<inflight, alerts, ws, urlVars, remoteVars, playerVars>>

\* ------------------------------------------------------------ the WebSocket
\* A socket is its readyState ("none" before it is created, then "connecting",
\* "open", "closing", "closed") and whether its keepAliveInterval is set.
NoSocket == [readyState |-> "none", keepAliveInterval |-> FALSE]
NewSocket == [readyState |-> "connecting", keepAliveInterval |-> FALSE]

Created == {s \in DOMAIN sockets : sockets[s].readyState # "none"}
NotClosed == {s \in DOMAIN sockets : sockets[s].readyState \in {"connecting", "open"}}

\* the history record of a step of the socket effect or of a socket event:
\* the socket it was about and the number of sockets created before it
SockRec(name, s) ==
  [op |-> name, socket |-> s, created |-> Cardinality(Created)]

\* newWebSocket.close()
close(sock) ==
  IF sock.readyState \in {"connecting", "open"}
    THEN [sock EXCEPT !.readyState = "closing"]
    ELSE sock

\* if (keepAliveInterval) clearInterval(keepAliveInterval)
clearKeepAlive(sock) == [sock EXCEPT !.keepAliveInterval = FALSE]

\* a cleanup that forgets newWebSocket.close()
cleanup_LeavesOpen(socks, s) ==
  IF s = 0 THEN socks ELSE [socks EXCEPT ![s] = clearKeepAlive(@)]

\* the cleanup the effect returned for socket s; none was returned for s = 0
cleanup(socks, s) ==
  IF s = 0 THEN socks ELSE [socks EXCEPT ![s] = close(clearKeepAlive(@))]

\* newWebSocket.onopen: setInterval
onopen(sock) == [sock EXCEPT !.keepAliveInterval = TRUE]

\* an onclose that leaves the interval running
onclose_KeepsTimer(sock) == sock

\* newWebSocket.onclose
onclose(sock) == clearKeepAlive(sock)

\* an onerror that only logs
onerror_KeepsFlag(connected) == connected

\* newWebSocket.onerror: the value it gives to setIsConnected
onerror(connected) == FALSE

\* setIsConnected; a state update of an unmounted component is dropped
setIsConnected(value) == IF mounted THEN value ELSE isConnected

\* what a step of the socket effect or a socket event leaves alone
SocketFrame ==
  /\ sent' = <<>>
  /\ displayed' = FALSE
  /\ UNCHANGED <<currentlyPlaying, session, isPlaying, progressTicks,
                 pendingIsPlaying, pendingProgress, stale, inflight, alerts,
                 stopReported, volume, previousVolume, urlVars, playerVars>>

\* api, deviceId or user changes: the cleanup of the previous run, then the
\* effect, which returns early unless there are a deviceId and an accessToken.
\* setWs(newWebSocket) re-renders, and the next effect installs ws.onmessage.
WebSocketEffect(device, token) ==
  /\ mounted
  /\ (device /\ token) => Cardinality(Created) < MaxSockets
  /\ hasDeviceId' = device
  /\ hasToken' = token
  /\ LET newWebSocket == Cardinality(Created) + 1
     IN IF device /\ token
          THEN /\ sockets' = [cleanup(sockets, live) EXCEPT ![newWebSocket] = NewSocket]
               /\ live' = newWebSocket
               /\ ws' = newWebSocket
               /\ msgIsPlaying' = isPlaying
          ELSE /\ sockets' = cleanup(sockets, live)
               /\ live' = 0
               /\ UNCHANGED <<ws, msgIsPlaying>>
  /\ pinged' = 0
  /\ lastOp' = SockRec("socketEffect", live)
  /\ SocketFrame
  /\ UNCHANGED <<mounted, isConnected>>

\* the provider unmounts: the cleanup of the last run
Unmount ==
  /\ mounted
  /\ mounted' = FALSE
  /\ sockets' = cleanup(sockets, live)
  /\ live' = 0
  /\ pinged' = 0
  /\ lastOp' = SockRec("unmount", live)
  /\ SocketFrame
  /\ UNCHANGED <<hasDeviceId, hasToken, isConnected, ws, msgIsPlaying>>

\* the connection is established: onopen
SocketOpens(s) ==
  /\ sockets[s].readyState = "connecting"
  /\ sockets' = [sockets EXCEPT ![s] = onopen([@ EXCEPT !.readyState = "open"])]
  /\ isConnected' = setIsConnected(TRUE)
  /\ pinged' = 0
  /\ lastOp' = SockRec("onopen", s)
  /\ SocketFrame
  /\ UNCHANGED <<hasDeviceId, hasToken, mounted, live, ws, msgIsPlaying>>

\* the connection fails: the socket is closed, then onerror and onclose run
SocketFails(s) ==
  /\ sockets[s].readyState \in {"connecting", "open", "closing"}
  /\ sockets' = [sockets EXCEPT ![s] = onclose([@ EXCEPT !.readyState = "closed"])]
  /\ isConnected' = setIsConnected(onerror(isConnected))
  /\ pinged' = 0
  /\ lastOp' = SockRec("onerror", s)
  /\ SocketFrame
  /\ UNCHANGED <<hasDeviceId, hasToken, mounted, live, ws, msgIsPlaying>>

\* the server closes the connection, or the closing handshake ends: onclose
SocketCloses(s) ==
  /\ sockets[s].readyState \in {"open", "closing"}
  /\ sockets' = [sockets EXCEPT ![s] = onclose([@ EXCEPT !.readyState = "closed"])]
  /\ pinged' = 0
  /\ lastOp' = SockRec("onclose", s)
  /\ SocketFrame
  /\ UNCHANGED <<hasDeviceId, hasToken, mounted, live, isConnected, ws, msgIsPlaying>>

\* the interval of socket s elapses: KeepAlive is sent if the socket is OPEN
KeepAliveTick(s) ==
  /\ sockets[s].keepAliveInterval
  /\ pinged' = IF sockets[s].readyState = "open" THEN s ELSE 0
  /\ lastOp' = SockRec("keepAlive", s)
  /\ SocketFrame
  /\ UNCHANGED <<hasDeviceId, hasToken, mounted, sockets, live, isConnected, ws,
                 msgIsPlaying>>

\* --------------------------------------------------------- remote control
\* a message can arrive on the socket that carries the onmessage handler
CanReceive == ws # 0 /\ sockets[ws].readyState = "open"

\* The first run of the socket effect with a deviceId and an accessToken,
\* together with the opening of its socket; the next effect installs onmessage.
SocketEffect ==
  /\ ws = 0
  /\ ws' = 1
  /\ msgIsPlaying' = isPlaying
  /\ hasDeviceId' = TRUE
  /\ hasToken' = TRUE
  /\ sockets' = [sockets EXCEPT ![1] = onopen([NewSocket EXCEPT !.readyState = "open"])]
  /\ live' = 1
  /\ isConnected' = setIsConnected(TRUE)
  /\ sent' = <<>>
  /\ lastOp' = Other
  /\ UNCHANGED <<currentlyPlaying, session, isPlaying, progressTicks,
                 pendingIsPlaying, pendingProgress, stale, inflight, alerts,
                 stopReported, mounted, pinged, volume, previousVolume, displayed,
                 urlVars, playerVars>>

\* ws.onmessage, command PlayPause
RemotePlayPause ==
  /\ CanReceive
  /\ Render(IF msgIsPlaying THEN pauseVideo(Cur) ELSE playVideo(Cur))
  /\ lastOp' = OpRec("PlayPause", NoItem, NoItem, NoSid, 0, isPlaying)
  /\ UNCHANGED <<inflight, alerts, ws, urlVars, remoteVars, playerVars>>

\* ws.onmessage, command Stop
RemoteStop ==
  /\ CanReceive
  /\ Render(stopPlayback(Cur))
  /\ lastOp' = OpRec("stop", NoItem, currentlyPlaying, NoSid, 0, FALSE)
  /\ UNCHANGED <<inflight, alerts, ws, urlVars, remoteVars, playerVars>>

\* the messages the server sends: Data.Command, and Data.Name of a general
\* command; "" stands for a field the message does not have
Commands == {"PlayPause", "Stop", "Mute", "Unmute", "SetVolume", "Seek", ""}
Names == {"", "DisplayMessage"}

\* the history record of ws.onmessage: the message, the volume before it and,
\* when the step before it was a Mute message, the volume before that Mute
MsgRec(command, name) ==
  LET followsMute == lastOp.op = "onmessage" /\ lastOp.command = "Mute"
  IN [op |-> "onmessage", command |-> command, name |-> name, before |-> volume,
      followsMute |-> followsMute,
      muted |-> IF followsMute THEN lastOp.before ELSE NoVolume]

\* setVolume is memoised on [_setVolume] alone: it is the closure of the first
\* render, whose volume is null, and that is what it stores in previousVolume
setVolume(newVolume) == [volume |-> newVolume, previousVolume |-> NoVolume]

\* an if/else chain whose last else stops the playback
onmessage_DefaultStops(n, command) ==
  IF command = "PlayPause"
    THEN IF msgIsPlaying THEN pauseVideo(n) ELSE playVideo(n)
    ELSE IF command \in {"Mute", "Unmute", "SetVolume"} THEN n
    ELSE stopPlayback(n)

\* ws.onmessage: what the if/else chain on the command does to the playback
onmessage(n, command) ==
  IF command = "PlayPause"
    THEN IF msgIsPlaying THEN pauseVideo(n) ELSE playVideo(n)
    ELSE IF command = "Stop" THEN stopPlayback(n)
    ELSE n

\* ws.onmessage: what the chain does to the volume; previousVolume.current || 20
onmessageVolume(command) ==
  IF command = "Mute" THEN setVolume(0)
  ELSE IF command = "Unmute"
    THEN setVolume(IF previousVolume \in {NoVolume, 0} THEN DefaultVolume
                   ELSE previousVolume)
  ELSE [volume |-> volume, previousVolume |-> previousVolume]

\* ws.onmessage: the last branch of the chain shows the DisplayMessage alert
onmessageAlert(command, name) ==
  /\ command \notin {"PlayPause", "Stop", "Mute", "Unmute", "SetVolume"}
  /\ name = "DisplayMessage"

\* a message arrives on the socket: ws.onmessage
RemoteMessage(command, name) ==
  /\ CanReceive
  /\ command \in Commands
  /\ name \in Names
  /\ Render(onmessage(Cur, command))
  /\ volume' = onmessageVolume(command).volume
  /\ previousVolume' = onmessageVolume(command).previousVolume
  /\ displayed' = onmessageAlert(command, name)
  /\ pinged' = 0
  /\ lastOp' = MsgRec(command, name)
  /\ UNCHANGED <<inflight, alerts, ws, hasDeviceId, hasToken, mounted, sockets, live,
                 isConnected, urlVars, playerVars>>

\* setVolume(newVolume), called through the context
SetVolume(newVolume) ==
  /\ mounted
  /\ newVolume \in Volumes
  /\ Render(Cur)
  /\ volume' = setVolume(newVolume).volume
  /\ previousVolume' = setVolume(newVolume).previousVolume
  /\ displayed' = FALSE
  /\ pinged' = 0
  /\ lastOp' = [op |-> "setVolume", before |-> volume]
  /\ UNCHANGED <<inflight, alerts, ws, hasDeviceId, hasToken, mounted, sockets, live,
                 isConnected, urlVars, playerVars>>

\* ------------------------------------------------ the player's scrub bar
\* the positions of the slider, in ticks
Positions == {p * TicksPerSecond : p \in 0 .. MaxPos}

\* the conversions between seconds and ticks, 10,000,000 ticks to the second
secondsToTicks(seconds) == seconds * TicksPerSecond

ticksToSeconds(ticks) == ticks \div TicksPerSecond

\* The state a handler of the player leaves behind: the shared values, the
\* data it passed to onProgress and the seeks it issued on videoRef.
Player ==
  [isSeeking |-> isSeeking, progress |-> progress, forwarded |-> <<>>, seeks |-> <<>>]

\* a progress handler without the test of isSeeking
handleVideoProgress_IgnoresSeeking(pl, time) ==
  [pl EXCEPT !.progress = secondsToTicks(time), !.forwarded = <<time>>]

\* handleVideoProgress(data), data.currentTime = time
handleVideoProgress(pl, time) ==
  IF pl.isSeeking
    THEN pl
    ELSE [pl EXCEPT !.progress = secondsToTicks(time), !.forwarded = <<time>>]

\* showControls as handleSliderStart captured it: that of the first render
ShowControlsCaptured == TRUE

\* handleSliderStart()
handleSliderStart(pl) ==
  IF ShowControlsCaptured = FALSE THEN pl ELSE [pl EXCEPT !.isSeeking = TRUE]

\* handleSliderComplete(value)
handleSliderComplete(pl, value) ==
  [pl EXCEPT !.progress = value, !.isSeeking = FALSE,
             !.seeks = <<value \div TicksPerSecond>>]

\* the writes to the shared values, then the animated reaction on progress
\* and isSeeking: updateTimes unless seeking
PlayerWrites(pl) ==
  /\ isSeeking' = pl.isSeeking
  /\ progress' = pl.progress
  /\ seeks' = pl.seeks
  /\ displayedTime' =
       IF (pl.progress # progress \/ pl.isSeeking # isSeeking) /\ ~pl.isSeeking
         THEN ticksToSeconds(pl.progress)
         ELSE displayedTime

\* The handler's writes, then the animated reaction on progress and isSeeking
\* (updateTimes unless seeking), then the provider's onProgress if it was called.
PlayerStep(pl) ==
  /\ PlayerWrites(pl)
  /\ Render(IF pl.forwarded = <<>> THEN Cur ELSE [Cur EXCEPT !.pp = pl.forwarded])
  /\ UNCHANGED <<inflight, alerts, ws, urlVars, remoteVars>>

\* the history record of a handler of the player: the number it was given and
\* the scrub position, displayed time, seeking mode and pending onProgress
\* call before it
PlayerRec(name, value) ==
  [op |-> name, value |-> value, progress |-> progress, shown |-> displayedTime,
   seeking |-> isSeeking, pending |-> pendingProgress]

\* A downloaded file is opened (startDownloadedFilePlayback), or the player is
\* closed with null: for an item, the player's effect on [currentlyPlaying]
\* puts the scrub position at the item's PlaybackPositionTicks || 0 before it
\* calls playVideo.
PlayerOpens(state, position) ==
  /\ state \in Items \cup {NoItem}
  /\ position \in Positions
  /\ PlayerWrites([Player EXCEPT !.progress = IF state = NoItem THEN progress ELSE position])
  /\ Render(startDownloadedFilePlayback(Cur, state))
  /\ lastOp' = PlayerRec("open", position)
  /\ UNCHANGED <<inflight, alerts, ws, urlVars, remoteVars>>

\* the video's onProgress event
HandleVideoProgress(time) ==
  /\ PlayerRendered
  /\ time \in Times
  /\ PlayerStep(handleVideoProgress(Player, time))
  /\ lastOp' = PlayerRec("videoProgress", time)

\* the slider's onSlidingStart
HandleSliderStart ==
  /\ PlayerRendered
  /\ PlayerStep(handleSliderStart(Player))
  /\ lastOp' = PlayerRec("sliderStart", 0)

\* the slider's onValueChange: only the trickplay preview follows the thumb
HandleSliderChange(value) ==
  /\ PlayerRendered
  /\ value \in Positions
  /\ PlayerStep(Player)
  /\ lastOp' = PlayerRec("sliderChange", value)

\* the slider's onSlidingComplete
HandleSliderComplete(value) ==
  /\ PlayerRendered
  /\ value \in Positions
  /\ PlayerStep(handleSliderComplete(Player, value))
  /\ lastOp' = PlayerRec("sliderComplete", value)

\* ------------------------------------------------------------ getStreamUrl
\* Strings stand for themselves, "" for null and undefined; a URL is the
\* sequence of the pieces its template literal concatenates.
Undefined == 0 - 1

BasePath == "http://jellyfin:8096"
DeviceId == "device1"
AccessToken == "token1"
UserId == "user1"

NullItem == [Id |-> "", MediaType |-> ""]
UrlItems == {NullItem} \cup [Id : {"", "item1"}, MediaType : {"Video", "Audio", "Photo"}]
SourceIds == {"m1", "m2"}
TranscodingUrls == {"", "/videos/item1/master.m3u8"}
MediaSourceInfos ==
  [Id : SourceIds, SupportsDirectPlay : BOOLEAN, TranscodingUrl : TranscodingUrls]
NoSource == [Id |-> "", SupportsDirectPlay |-> FALSE, TranscodingUrl |-> ""]

UrlInputs ==
  [api : BOOLEAN, userId : {"", UserId}, item : UrlItems,
   PlaySessionId : {"", "ps1"}, audioStreamIndex : {0, 1},
   subtitleStreamIndex : {Undefined, 0, 2}, forceDirectPlay : BOOLEAN,
   mediaSourceId : {""} \cup SourceIds]

NoUrlIn == [api |-> FALSE, userId |-> "", item |-> NullItem, PlaySessionId |-> "",
            audioStreamIndex |-> 0, subtitleStreamIndex |-> Undefined,
            forceDirectPlay |-> FALSE, mediaSourceId |-> ""]

Returned(url) == [kind |-> "return", error |-> "", url |-> url]
ReturnedNull == [kind |-> "null", error |-> "", url |-> <<>>]
Thrown(error) == [kind |-> "throw", error |-> error, url |-> <<>>]
NoUrlOut == [kind |-> "none", error |-> "", url |-> <<>>]

\* ${n} in a template literal
Interpolate(n) ==
  CASE n = Undefined -> "undefined"
    [] n = 0 -> "0"
    [] n = 1 -> "1"
    [] n = 2 -> "2"

\* MediaSources.find(source => source.Id === mediaSourceId)
FindSource(sources, mediaSourceId) ==
  LET hits == {k \in DOMAIN sources : sources[k].Id = mediaSourceId}
  IN IF hits = {} THEN NoSource
     ELSE sources[CHOOSE k \in hits : \A j \in hits : k <= j]

\* a template with the two track indices exchanged
DirectVideoUrl_SwappedIndices(in, mediaSource) ==
  <<BasePath, "/Videos/", in.item.Id, "/stream.mp4?playSessionId=", in.PlaySessionId,
    "&mediaSourceId=", mediaSource.Id, "&static=true&subtitleStreamIndex=",
    Interpolate(in.audioStreamIndex), "&audioStreamIndex=",
    Interpolate(in.subtitleStreamIndex), "&deviceId=", DeviceId, "&api_key=", AccessToken>>

\* the static stream of a video
DirectVideoUrl(in, mediaSource) ==
  <<BasePath, "/Videos/", in.item.Id, "/stream.mp4?playSessionId=", in.PlaySessionId,
    "&mediaSourceId=", mediaSource.Id, "&static=true&subtitleStreamIndex=",
    Interpolate(in.subtitleStreamIndex), "&audioStreamIndex=",
    Interpolate(in.audioStreamIndex), "&deviceId=", DeviceId, "&api_key=", AccessToken>>

\* the universal stream of an audio item; URLSearchParams percent-encodes , and |
DirectAudioUrl(in) ==
  <<BasePath, "/Audio/", in.item.Id, "/universal?", "UserId=", in.userId,
    "&DeviceId=", DeviceId, "&MaxStreamingBitrate=", "140000000", "&Container=",
    "opus%2Cwebm%7Copus%2Cmp3%2Caac%2Cm4a%7Caac%2Cm4b%7Caac%2Cflac%2Cwebma%2Cwebm%7Cwebma%2Cwav%2Cogg",
    "&TranscodingContainer=", "mp4", "&TranscodingProtocol=", "hls", "&AudioCodec=", "aac",
    "&api_key=", AccessToken, "&PlaySessionId=", in.PlaySessionId, "&StartTimeTicks=", "0",
    "&EnableRedirection=", "true", "&EnableRemoteMedia=", "false">>

\* a transcode URL without the base path
TranscodeUrl_NoBasePath(mediaSource) == <<mediaSource.TranscodingUrl>>

\* the URL the server supplied for transcoding
TranscodeUrl(mediaSource) == <<BasePath, mediaSource.TranscodingUrl>>

\* the choice of the URL: <<>> where the code leaves url undefined
SelectUrl(in, mediaSource) ==
  IF mediaSource.SupportsDirectPlay \/ in.forceDirectPlay
    THEN IF in.item.MediaType = "Video" THEN DirectVideoUrl(in, mediaSource)
         ELSE IF in.item.MediaType = "Audio" THEN DirectAudioUrl(in)
         ELSE <<>>
    ELSE IF mediaSource.TranscodingUrl # "" THEN TranscodeUrl(mediaSource)
         ELSE <<>>

\* a getStreamUrl without the test of line 110
getStreamUrl_NoUrlCheck(in, sources) ==
  LET mediaSource == FindSource(sources, in.mediaSourceId)
  IN IF mediaSource = NoSource THEN Thrown("No media source")
     ELSE IF in.PlaySessionId = "" THEN Thrown("no PlaySessionId")
     ELSE Returned(SelectUrl(in, mediaSource))

\* getStreamUrl after the POST has resolved with the media sources
getStreamUrl(in, sources) ==
  LET mediaSource == FindSource(sources, in.mediaSourceId)
      url == SelectUrl(in, mediaSource)
  IN IF mediaSource = NoSource THEN Thrown("No media source")
     ELSE IF in.PlaySessionId = "" THEN Thrown("no PlaySessionId")
     ELSE IF url = <<>> THEN Thrown("No url")
     ELSE Returned(url)

\* the guard before the request
MissingArgument(in) ==
  ~in.api \/ in.userId = "" \/ in.item.Id = "" \/ in.mediaSourceId = ""

\* getStreamUrl(...) up to the await of the POST
GetStreamUrlCall ==
  /\ urlPc = "start"
  /\ IF MissingArgument(urlIn)
       THEN urlPc' = "done" /\ urlOut' = ReturnedNull
       ELSE urlPc' = "awaiting" /\ urlOut' = urlOut
  /\ UNCHANGED <<urlIn, urlResp, ctlVars, remoteVars, playerVars>>

RECURSIVE SeqsUpTo(_, _)
SeqsUpTo(S, n) ==
  IF n = 0 THEN {<<>>}
  ELSE LET shorter == SeqsUpTo(S, n - 1)
       IN shorter \cup {Append(q, x) : q \in {r \in shorter : Len(r) = n - 1}, x \in S}

\* the POST resolves with response.data.MediaSources
PlaybackInfoResponds(sources) ==
  /\ urlPc = "awaiting"
  /\ urlResp' = sources
  /\ urlOut' = getStreamUrl(urlIn, sources)
  /\ urlPc' = "done"
  /\ UNCHANGED <<urlIn, ctlVars, remoteVars, playerVars>>

\* the POST rejects
PlaybackInfoRejects ==
  /\ urlPc = "awaiting"
  /\ urlOut' = Thrown("request failed")
  /\ urlPc' = "done"
  /\ UNCHANGED <<urlIn, urlResp, ctlVars, remoteVars, playerVars>>

InitUrl ==
  /\ urlPc = "start"
  /\ urlIn \in UrlInputs
  /\ urlResp = <<>>
  /\ urlOut = NoUrlOut

NextUrl ==
  \/ GetStreamUrlCall
  \/ \E sources \in SeqsUpTo(MediaSourceInfos, MaxSources) : PlaybackInfoResponds(sources)
  \/ PlaybackInfoRejects

\* ------------------------------------------------------------ specification
InitCtl ==
  /\ currentlyPlaying = NoItem
  /\ session = NoSession
  /\ isPlaying = FALSE
  /\ progressTicks = 0
  /\ pendingIsPlaying = <<>>
  /\ pendingProgress = <<>>
  /\ stale = EmptyBag
  /\ inflight = EmptyBag
  /\ alerts = EmptyBag
  /\ ws = 0
  /\ msgIsPlaying = FALSE
  /\ lastOp = [op |-> "other", item |-> NoItem, prev |-> NoItem, sid |-> NoSid,
               time |-> 0, was |-> FALSE, again |-> FALSE]
  /\ sent = <<>>
  /\ stopReported = FALSE

InitUrlIdle ==
  /\ urlPc = "idle"
  /\ urlIn = NoUrlIn
  /\ urlResp = <<>>
  /\ urlOut = NoUrlOut

InitRemote ==
  /\ hasDeviceId = FALSE
  /\ hasToken = FALSE
  /\ mounted = TRUE
  /\ sockets = [s \in 1 .. MaxSockets |-> NoSocket]
  /\ live = 0
  /\ isConnected = FALSE
  /\ pinged = 0
  /\ volume = NoVolume
  /\ previousVolume = NoVolume
  /\ displayed = FALSE

InitPlayer ==
  /\ isSeeking = FALSE
  /\ progress = 0
  /\ displayedTime = 0
  /\ seeks = <<>>

Init == InitCtl /\ InitUrlIdle /\ InitRemote /\ InitPlayer

Next ==
  \/ \E state \in Items : SetCurrentlyPlayingStateVLC(state)
  \/ \E state \in Items : SetCurrentlyPlayingStateBegin(state)
  \/ SetCurrentlyPlayingStateClear
  \/ \E state \in Items, withSid \in BOOLEAN : NegotiationReturns(state, withSid)
  \/ \E state \in Items : NegotiationThrows(state)
  \/ \E state \in Items : AlertForcePlay(state)
  \/ \E state \in Items : AlertOk(state)
  \/ \E state \in Items \cup {NoItem} : StartDownloadedFilePlayback(state)
  \/ StopPlayback
  \/ HandlePlayPause
  \/ HandleVideoError
  \/ SetIsPlayingFires
  \/ \E currentTime \in Times : OnProgress(currentTime)
  \/ OnProgressFires
  \/ \E c \in BagToSet(stale) : StaleOnProgressFires(c)
  \/ SocketEffect
  \/ RemotePlayPause
  \/ RemoteStop

Spec == Init /\ [][Next]_vars

\* the remote-control channel: the socket effect, the socket's events, the
\* messages, and the calls that give the messages something to act on
NextSocket ==
  \/ \E device \in BOOLEAN, token \in BOOLEAN : WebSocketEffect(device, token)
  \/ Unmount
  \/ \E s \in 1 .. MaxSockets : SocketOpens(s)
  \/ \E s \in 1 .. MaxSockets : SocketFails(s)
  \/ \E s \in 1 .. MaxSockets : SocketCloses(s)
  \/ \E s \in 1 .. MaxSockets : KeepAliveTick(s)
  \/ \E command \in Commands, name \in Names : RemoteMessage(command, name)
  \/ \E newVolume \in Volumes : SetVolume(newVolume)
  \/ \E state \in Items : StartDownloadedFilePlayback(state)

SpecSocket == Init /\ [][NextSocket]_vars

\* the scrub bar: the video's progress events, the slider's events and the
\* timer of the debounced onProgress
NextPlayer ==
  \/ \E state \in Items \cup {NoItem}, position \in Positions : PlayerOpens(state, position)
  \/ \E time \in Times : HandleVideoProgress(time)
  \/ HandleSliderStart
  \/ \E value \in Positions : HandleSliderChange(value)
  \/ \E value \in Positions : HandleSliderComplete(value)
  \/ OnProgressFires

SpecPlayer == Init /\ [][NextPlayer]_vars

InitGetStreamUrl == InitCtl /\ InitUrl /\ InitRemote /\ InitPlayer

SpecUrl == InitGetStreamUrl /\ [][NextUrl]_vars

TypeOK ==
  /\ currentlyPlaying \in Items \cup {NoItem}
  /\ session \in [item : Items \cup {NoItem}, sid : 0 .. MaxSid]
  /\ isPlaying \in BOOLEAN
  /\ progressTicks \in {t * TicksPerSecond : t \in Times}
  /\ Len(pendingIsPlaying) <= 1
  /\ Len(pendingProgress) <= 1
  /\ BagCardinality(stale) <= MaxStale
  /\ BagCardinality(inflight) <= MaxInflight
  /\ BagCardinality(alerts) <= MaxAlerts
  /\ stopReported = FALSE

\* ------------------------------------------------------------------ claims
BeginOps == {"beginDone", "startDownloaded", "forcePlay"}

\* C1: at most one playback session is active.  After a begin
\* (setCurrentlyPlayingState resolved, startDownloadedFilePlayback, force
\* play) the one current item is the item of that begin, whatever item was
\* current before it, and after a stop there is no current item.
C1_SingleCurrentItem ==
  /\ lastOp.op \in BeginOps => currentlyPlaying = lastOp.item
  /\ lastOp.op = "stop" => currentlyPlaying = NoItem
  /\ Cardinality({i \in Items : currentlyPlaying = i}) <= 1

C1_Witness ==
  /\ lastOp.op = "beginDone"
  /\ lastOp.prev = "B"
  /\ lastOp.item = "A"
  /\ currentlyPlaying = "A"

\* C2 (as claimed): when setCurrentlyPlayingState replaces the current item B
\* by another item A, a stop report for B with B's position has been sent
\* while B was current, at the latest by the replacing step.
C2_StopReportedBeforeReplace ==
  [][(/\ lastOp'.op = "beginDone"
      /\ lastOp'.prev \in Items
      /\ lastOp'.prev # lastOp'.item)
     => \/ stopReported
        \/ \E k \in DOMAIN sent' :
             sent'[k] = StoppedReport(currentlyPlaying, session.sid, progressTicks)]_vars

C4_PlayPauseToggles ==
  lastOp.op = "PlayPause" => isPlaying = ~lastOp.was

\* the debounced onProgress calls whose timer is pending and which will send
\* a report when it fires
PendingReports ==
  BagCardinality(stale)
    + (IF /\ pendingProgress # <<>>
          /\ ~Ignored(session.sid, currentlyPlaying, pendingProgress[1])
         THEN 1 ELSE 0)

\* C5 (as claimed): onProgress calls within 500 ms of each other collapse to
\* one report.  Two calls are pending at once only if the second was made
\* within the 500 ms of the first, and each pending call sends its report:
\* so at most one reporting call is pending.
C5_ProgressCollapses ==
  PendingReports <= 1

\* C6: when _onProgress runs with no session id, no current item or position
\* 0, that step sends no report and leaves progressTicks unchanged.
C6_ProgressNoOp ==
  [][(/\ lastOp'.op = "_onProgress"
      /\ Ignored(lastOp'.sid, lastOp'.item, lastOp'.time))
     => /\ sent' = <<>>
        /\ progressTicks' = progressTicks]_vars

C6_Witness ==
  /\ lastOp.op = "_onProgress"
  /\ lastOp.time = 0
  /\ lastOp.sid # NoSid
  /\ lastOp.item # NoItem
  /\ progressTicks # 0
  /\ sent = <<>>

\* C7 (as claimed): after stop the current item is null and the session id
\* and the stored position are cleared.
C7_StopClearsSession ==
  lastOp.op = "stop" =>
    /\ currentlyPlaying = NoItem
    /\ session.sid = NoSid
    /\ progressTicks = 0

\* C8: when setCurrentlyPlayingState succeeds, the session data and the
\* current item are those of the new item, the debounced setIsPlaying(true)
\* is pending and the player's effect has set the play flag.
C8_BeginSucceeds ==
  lastOp.op = "beginDone" =>
    /\ session = [item |-> lastOp.item, sid |-> lastOp.sid]
    /\ currentlyPlaying = lastOp.item
    /\ pendingIsPlaying = <<TRUE>>
    /\ isPlaying

C8_Witness ==
  /\ lastOp.op = "beginDone"
  /\ lastOp.prev = "A"
  /\ lastOp.item = "B"
  /\ session = [item |-> "B", sid |-> 2]
  /\ isPlaying

\* the media source getStreamUrl found in the response
UrlSource == FindSource(urlResp, urlIn.mediaSourceId)

\* a call that got as far as choosing the URL for a source that is not
\* directly playable and has a transcoding URL
TranscodeCase ==
  /\ urlPc = "done"
  /\ UrlSource # NoSource
  /\ ~UrlSource.SupportsDirectPlay
  /\ UrlSource.TranscodingUrl # ""
  /\ urlIn.PlaySessionId # ""

\* C9 (as claimed): for a source with SupportsDirectPlay false and a
\* transcoding URL, the result is basePath + TranscodingUrl for every
\* combination of the other inputs.
C9_AlwaysTranscodeUrl ==
  TranscodeCase => urlOut = Returned(<<BasePath, UrlSource.TranscodingUrl>>)

\* C9 (amended): the same, when forceDirectPlay is not set.
C9_TranscodeUnlessForced ==
  (TranscodeCase /\ ~urlIn.forceDirectPlay)
    => urlOut = Returned(<<BasePath, UrlSource.TranscodingUrl>>)

C9_Witness ==
  /\ TranscodeCase
  /\ ~urlIn.forceDirectPlay
  /\ urlIn.item.MediaType = "Video"
  /\ urlOut.kind = "return"

\* the piece of a URL that follows the piece key
Param(url, key) ==
  LET at == {k \in 1 .. Len(url) - 1 : url[k] = key}
  IN IF at = {} THEN "<missing>"
     ELSE url[(CHOOSE k \in at : \A j \in at : k <= j) + 1]

\* a call that got as far as choosing the URL for a directly playable source
\* of a Video item
DirectVideoCase ==
  /\ urlPc = "done"
  /\ UrlSource # NoSource
  /\ UrlSource.SupportsDirectPlay
  /\ urlIn.item.MediaType = "Video"
  /\ urlIn.PlaySessionId # ""

\* C10: for a Video item and a source with SupportsDirectPlay, the result is
\* the static stream /Videos/{itemId}/stream.mp4 with static=true, the play
\* session id, the media source id and the caller's subtitle and audio indices.
C10_DirectVideoUrl ==
  DirectVideoCase =>
    /\ urlOut.kind = "return"
    /\ SubSeq(urlOut.url, 1, 3) = <<BasePath, "/Videos/", urlIn.item.Id>>
    /\ Param(urlOut.url, urlIn.item.Id) = "/stream.mp4?playSessionId="
    /\ Param(urlOut.url, "/stream.mp4?playSessionId=") = urlIn.PlaySessionId
    /\ Param(urlOut.url, "&mediaSourceId=") = urlIn.mediaSourceId
    /\ Param(urlOut.url, "&static=true&subtitleStreamIndex=")
         = Interpolate(urlIn.subtitleStreamIndex)
    /\ Param(urlOut.url, "&audioStreamIndex=") = Interpolate(urlIn.audioStreamIndex)

C10_Witness ==
  /\ DirectVideoCase
  /\ urlIn.subtitleStreamIndex = 2
  /\ urlIn.audioStreamIndex = 1
  /\ urlOut.kind = "return"

\* the cases in which stream negotiation fails, for a call whose POST has
\* been answered, each with its error
FailureCases ==
  (IF UrlSource = NoSource THEN {"No media source"} ELSE {})
    \cup (IF urlIn.PlaySessionId = "" THEN {"no PlaySessionId"} ELSE {})
    \cup (IF SelectUrl(urlIn, UrlSource) = <<>> THEN {"No url"} ELSE {})

\* the POST of the call has been answered
Answered ==
  /\ urlPc = "done"
  /\ urlOut.kind \in {"return", "throw"}
  /\ urlOut.error # "request failed"

\* C11: a negotiation in which the media source is absent, the session data
\* has no PlaySessionId or no URL can be formed fails with the error of such a
\* case (the three errors differ), and hands no URL to the caller; in every
\* other negotiation a URL is returned, and a returned URL is never empty.
C11_DistinctErrors ==
  Answered =>
    /\ FailureCases # {} =>
         /\ urlOut.kind = "throw"
         /\ urlOut.error \in FailureCases
         /\ urlOut.url = <<>>
    /\ UrlSource = NoSource => urlOut.error = "No media source"
    /\ FailureCases = {"no PlaySessionId"} => urlOut.error = "no PlaySessionId"
    /\ FailureCases = {"No url"} => urlOut.error = "No url"
    /\ FailureCases = {} => urlOut.kind = "return"
    /\ urlOut.kind = "return" =>
         /\ \E k \in DOMAIN urlOut.url : urlOut.url[k] # ""

C11_Witness ==
  /\ Answered
  /\ UrlSource # NoSource
  /\ UrlSource.SupportsDirectPlay
  /\ urlIn.PlaySessionId # ""
  /\ urlIn.item.MediaType = "Photo"
  /\ urlOut = Thrown("No url")

\* the state a failed begin must leave alone
BeginState == <<currentlyPlaying, session, isPlaying, pendingIsPlaying, progressTicks>>

\* C12: when the negotiation of a begin throws, the alert is shown, the call
\* is over (nothing is retried) and the current item, the session data and
\* the play flag are left as they are; dismissing the alert with Ok leaves
\* them as they are too and starts nothing; force play makes the item of the
\* failed call current and sets the play flag.
C12_FailedBeginOffersForcePlay ==
  [][/\ lastOp'.op = "beginFailed" =>
          /\ UNCHANGED BeginState
          /\ sent' = <<>>
          /\ BagCardinality(alerts') = BagCardinality(alerts) + 1
          /\ BagCardinality(inflight') = BagCardinality(inflight) - 1
     /\ lastOp'.op = "alertOk" =>
          /\ UNCHANGED BeginState
          /\ sent' = <<>>
          /\ inflight' = inflight
          /\ BagCardinality(alerts') = BagCardinality(alerts) - 1
     /\ lastOp'.op = "forcePlay" =>
          /\ currentlyPlaying' = lastOp'.item
          /\ isPlaying'
          /\ inflight' = inflight]_vars

C12_Witness ==
  /\ lastOp.op = "alertOk"
  /\ currentlyPlaying = "A"
  /\ session.item = "A"
  /\ isPlaying
  /\ alerts = EmptyBag
  /\ inflight = EmptyBag

\* C13: a socket exists only by a run of the effect with a device identifier
\* and an access token; every later run and the unmount close the socket of
\* the run before and clear its ping timer before a new socket is made, so at
\* most one socket is not closed, and it is the one of the current run.
C13_OneLiveSocket ==
  /\ Cardinality(NotClosed) <= 1
  /\ NotClosed \subseteq {live}
  /\ live # 0 => hasDeviceId /\ hasToken /\ mounted /\ ws = live
  /\ (mounted /\ hasDeviceId /\ hasToken) => live # 0
  /\ \A s \in Created \ {live} : ~sockets[s].keepAliveInterval
  /\ (lastOp.op = "socketEffect" /\ Cardinality(Created) > lastOp.created)
       => hasDeviceId /\ hasToken

C13_Witness ==
  /\ lastOp.op = "socketEffect"
  /\ lastOp.socket = 1
  /\ sockets[1].readyState = "closing"
  /\ sockets[2].readyState = "connecting"
  /\ live = 2

\* C14: the ping timer of a socket is set exactly while the socket is open
\* (from onopen to onclose or to the cleanup of its effect), every tick of
\* it sends a KeepAlive, and a KeepAlive is only ever sent on an open socket.
C14_PingOnlyWhileOpen ==
  /\ \A s \in DOMAIN sockets :
       sockets[s].keepAliveInterval <=> sockets[s].readyState = "open"
  /\ pinged # 0 => sockets[pinged].readyState = "open"
  /\ lastOp.op = "keepAlive" => pinged = lastOp.socket

C14_Witness ==
  /\ lastOp.op = "keepAlive"
  /\ pinged = 2
  /\ sockets[1].readyState = "closed"
  /\ ~sockets[1].keepAliveInterval

\* the commands the handler acts on
Recognized == {"PlayPause", "Stop", "Mute", "Unmute"}

\* C15: a message whose command is none of PlayPause, Stop, Mute and Unmute
\* leaves the play flag, the current item, the session, the position, the
\* volume and the stored previous volume as they are and sends no report;
\* unless it is a DisplayMessage it shows nothing either.
C15_UnrecognizedIgnored ==
  [][(lastOp'.op = "onmessage" /\ lastOp'.command \notin Recognized)
     => /\ UNCHANGED <<isPlaying, currentlyPlaying, session, progressTicks,
                       pendingIsPlaying, volume, previousVolume>>
        /\ sent' = <<>>
        /\ lastOp'.name # "DisplayMessage" => ~displayed']_vars

C15_Witness ==
  /\ lastOp.op = "onmessage"
  /\ lastOp.command = "Seek"
  /\ lastOp.name = ""
  /\ currentlyPlaying = "A"
  /\ isPlaying
  /\ volume = 50

\* C16 (as claimed): Mute sets the volume to 0, and an Unmute that follows
\* it restores the volume that was in effect before the Mute (where there was
\* one, and it was not 0).
C16_UnmuteRestores ==
  lastOp.op = "onmessage" =>
    /\ lastOp.command = "Mute" => volume = 0
    /\ (lastOp.command = "Unmute" /\ lastOp.followsMute
          /\ lastOp.muted \notin {NoVolume, 0})
         => volume = lastOp.muted

\* C17: an error of a socket sets the connected flag to false; neither an
\* error nor a close creates a socket, so after the error of the current
\* socket no socket is open or connecting although the identifier and the
\* token are still there.
C17_ErrorNoReconnect ==
  lastOp.op \in {"onerror", "onclose"} =>
    /\ Cardinality(Created) = lastOp.created
    /\ sockets[lastOp.socket].readyState = "closed"
    /\ lastOp.socket = live => NotClosed = {}
    /\ (lastOp.op = "onerror" /\ mounted) => ~isConnected

C17_Witness ==
  /\ lastOp.op = "onerror"
  /\ lastOp.socket = live
  /\ hasDeviceId
  /\ hasToken
  /\ mounted
  /\ NotClosed = {}
  /\ ~isConnected
  /\ Cardinality(Created) = 1

\* C18: the start of a drag puts the player in seeking mode; a progress event
\* of the video that arrives while seeking changes neither the scrub position
\* nor the displayed time, is not passed to onProgress and ends nothing; the
\* end of the drag leaves seeking mode, sets the scrub position and issues
\* one seek, to the released position; no other step of the drag seeks.
C18_SeekingSuspendsProgress ==
  /\ lastOp.op = "sliderStart" => isSeeking
  /\ (lastOp.op = "videoProgress" /\ lastOp.seeking) =>
       /\ isSeeking
       /\ progress = lastOp.progress
       /\ displayedTime = lastOp.shown
       /\ pendingProgress = lastOp.pending
       /\ seeks = <<>>
  /\ lastOp.op = "sliderComplete" =>
       /\ ~isSeeking
       /\ progress = lastOp.value
       /\ seeks = <<lastOp.value \div TicksPerSecond>>
  /\ lastOp.op \in {"sliderStart", "sliderChange", "videoProgress"} => seeks = <<>>

C18_Witness ==
  /\ lastOp.op = "videoProgress"
  /\ lastOp.seeking
  /\ lastOp.value = 1
  /\ progress = 0
  /\ displayedTime = 0
  /\ pendingProgress = <<>>

\* C19 (as claimed): when a begin resolves after a stop or another begin
\* that was issued while it awaited the server, and no call is in flight any
\* more, the current item is that of the later call: none after the stop, the
\* later begin's item after the later begin.
C19_LatestCallWins ==
  [][(lastOp'.op = "beginDone" /\ inflight' = EmptyBag)
     => /\ lastOp.op = "stop" => currentlyPlaying' = NoItem
        /\ (lastOp.op \in {"startDownloaded", "forcePlay"} /\ lastOp.item # NoItem)
             => currentlyPlaying' = lastOp.item]_vars

\* C20 (as claimed): while an item is current, the stored session data, whose
\* PlaySessionId the reports carry, was negotiated for that item.
C20_SessionOfCurrentItem ==
  (currentlyPlaying # NoItem /\ session.sid # NoSid)
    => session.item = currentlyPlaying

\* C21 (as claimed): when the timer of a debounced setIsPlaying(v) fires
\* right after a PlayPause command that was handled while the call was
\* pending, the play flag stays what playVideo or pauseVideo made it.
C21_TransportActionWins ==
  [][(/\ lastOp.op = "PlayPause"
      /\ pendingIsPlaying # <<>>
      /\ pendingIsPlaying' = <<>>)
     => isPlaying' = isPlaying]_vars

\* C22 (as claimed): with no debounced setIsPlaying pending, the play flag is
\* true only if there is a current item, and no step reports "playing" (a
\* progress report that is not paused) without an item id.
C22_PlayingOnlyWithItem ==
  /\ (pendingIsPlaying = <<>> /\ isPlaying) => currentlyPlaying # NoItem
  /\ \A k \in DOMAIN sent :
       (sent[k].kind = "progress" /\ ~sent[k].paused) => sent[k].item # NoItem

\* C23 (as claimed): the connected flag is true only while the socket of the
\* current run of the effect exists and is open.
C23_ConnectedOnlyWhileOpen ==
  isConnected => /\ live # 0
                 /\ sockets[live].readyState = "open"

====
